---- MODULE Spec2Model ----
(***************************************************************************)
(* Tic Tac Toe (src/src/main.rs): the session loop of main, the human     *)
(* input routine, the two computer strategies and the win/draw tests.     *)
(* Board indices are the source's 0..8.                                   *)
(***************************************************************************)
EXTENDS Integers, Sequences, FiniteSets, TLC

VARIABLES board, current_player, game_mode, score_player_x, score_player_o,
          score_draws, pc, reprompted, panic, mover, matches_started, verdict,
          fn_board, fn_own, fn_strategy, fn_result

vars == <<board, current_player, game_mode, score_player_x, score_player_o,
          score_draws, pc, reprompted, panic, mover, matches_started, verdict,
          fn_board, fn_own, fn_strategy, fn_result>>

gameVars == <<board, current_player, game_mode, score_player_x, score_player_o,
              score_draws, pc, reprompted, panic, mover, matches_started, verdict>>

fnVars == <<fn_board, fn_own, fn_strategy, fn_result>>

\* Number of matches one session may start (the replay loop is unbounded).
MaxMatches == 2

(***************************************************************************)
(* Constants and types                                                    *)
(***************************************************************************)
PLAYER_X == "X"

PLAYER_O == "O"

Cells == 0..8

EMPTY_CELLS == [i \in Cells |-> <<"1", "2", "3", "4", "5", "6", "7", "8", "9">>[i + 1]]

Difficulty == {"Easy", "Hard"}

\* The match has no result: check_winner is None and is_draw is false.
Ongoing == [kind |-> "Ongoing", winner |-> "", line |-> <<>>]

NoMode == [kind |-> "None", difficulty |-> "Easy", player_first |-> TRUE]

Friend == [kind |-> "Friend", difficulty |-> "Easy", player_first |-> TRUE]

AI(d, pf) == [kind |-> "AI", difficulty |-> d, player_first |-> pf]

GameMode == {Friend} \cup {AI(d, pf) : d \in Difficulty, pf \in BOOLEAN}

\* The 8 lines, in the order both check_winner and get_ai_move_blocking list them.
wins == << <<0, 1, 2>>, <<3, 4, 5>>, <<6, 7, 8>>,
           <<0, 3, 6>>, <<1, 4, 7>>, <<2, 5, 8>>,
           <<0, 4, 8>>, <<2, 4, 6>> >>

\* The test `c != PLAYER_X && c != PLAYER_O` the code uses for an empty cell.
IsFree(b, i) == b[i] # PLAYER_X /\ b[i] # PLAYER_O

(***************************************************************************)
(* Game flow helpers                                                      *)
(***************************************************************************)
\* is_human_turn with the two answers of the AI branch exchanged.
is_human_turn_swapped(mode, current) ==
    IF mode.kind = "Friend" THEN TRUE
    ELSE IF mode.player_first THEN current = PLAYER_O
         ELSE current = PLAYER_X

is_human_turn(mode, current) ==
    IF mode.kind = "Friend" THEN TRUE
    ELSE IF mode.player_first THEN current = PLAYER_X
         ELSE current = PLAYER_O

\* switch_player that hands the turn back to the same mark.
switch_player_same(current) == current

switch_player(current) == IF current = PLAYER_X THEN PLAYER_O ELSE PLAYER_X

\* is_draw with `&&` between the two comparisons: no cell satisfies it.
is_draw_and(b) == \A i \in Cells : b[i] = PLAYER_X /\ b[i] = PLAYER_O

\* is_draw with `any` in place of `all`.
is_draw_any(b) == \E i \in Cells : b[i] = PLAYER_X \/ b[i] = PLAYER_O

is_draw(b) == \A i \in Cells : b[i] = PLAYER_X \/ b[i] = PLAYER_O

(***************************************************************************)
(* Game logic: check_winner returns the first uniform line, or None.      *)
(***************************************************************************)
\* The line test comparing the first two cells only.
LineWon_two_cells(b, line) ==
    /\ b[line[1]] = b[line[2]]
    /\ (b[line[1]] = PLAYER_X \/ b[line[1]] = PLAYER_O)

LineWon(b, line) ==
    /\ b[line[1]] = b[line[2]]
    /\ b[line[2]] = b[line[3]]
    /\ (b[line[1]] = PLAYER_X \/ b[line[1]] = PLAYER_O)

\* The loop without the early return: the last uniform line is kept.
first_won_last(b, ls) ==
    LET hits == {k \in 1..Len(ls) : LineWon(b, ls[k])}
    IN  IF hits = {} THEN [some |-> FALSE, winner |-> "", line |-> <<>>]
        ELSE LET k == CHOOSE h \in hits : \A g \in hits : h >= g
             IN  [some |-> TRUE, winner |-> b[ls[k][1]], line |-> ls[k]]

\* The loop `for &line in &wins` over the list ls: the first uniform line.
first_won(b, ls) ==
    LET hits == {k \in 1..Len(ls) : LineWon(b, ls[k])}
    IN  IF hits = {} THEN [some |-> FALSE, winner |-> "", line |-> <<>>]
        ELSE LET k == CHOOSE h \in hits : \A g \in hits : h <= g
             IN  [some |-> TRUE, winner |-> b[ls[k][1]], line |-> ls[k]]

\* check_winner with the rows only.
check_winner_rows_only(b) == first_won(b, SubSeq(wins, 1, 3))

\* check_winner with the two diagonals missing from its list.
check_winner_no_diagonals(b) == first_won(b, SubSeq(wins, 1, 6))

check_winner(b) == first_won(b, wins)

(***************************************************************************)
(* Input: one key event handled by the loop of get_human_move.            *)
(***************************************************************************)
DigitChars == {"0", "1", "2", "3", "4", "5", "6", "7", "8", "9"}

\* Key events: the digit characters, a non-digit character, a non-character
\* key, and an event that is not a key event.
KeyEvents == DigitChars \cup {"q", "Enter", "Resize"}

\* The events that are Event::Key with KeyCode::Char.
CharKeys == DigitChars \cup {"q"}

IsCharKey(ev) == ev \in CharKeys

\* char::to_digit(10): the value of an ASCII digit, None otherwise.
DigitValue ==
    [c \in DigitChars |->
        CHOOSE n \in 0..9 : <<"0", "1", "2", "3", "4", "5", "6", "7", "8", "9">>[n + 1] = c]

to_digit(c) ==
    IF c \in DigitChars
    THEN [some |-> TRUE, d |-> DigitValue[c]]
    ELSE [some |-> FALSE, d |-> 0]

\* A u32 as two 16-bit halves.
Half == 65536

U32(n) == [hi |-> 0, lo |-> n]

\* d - 1 on u32: with overflow checks the subtraction panics when d = 0,
\* without them it wraps modulo 2^32.
u32_sub_one(d, overflow_checks) ==
    IF d.lo = 0 /\ d.hi = 0
    THEN IF overflow_checks
         THEN [panic |-> TRUE, v |-> d]
         ELSE [panic |-> FALSE, v |-> [hi |-> Half - 1, lo |-> Half - 1]]
    ELSE IF d.lo = 0
         THEN [panic |-> FALSE, v |-> [hi |-> d.hi - 1, lo |-> Half - 1]]
         ELSE [panic |-> FALSE, v |-> [hi |-> d.hi, lo |-> d.lo - 1]]

\* The part of the loop body that does not read the board: the event is
\* not a digit character (Retry), the subtraction panics (Panic), or idx is
\* computed (Idx, with the u32 value of d - 1).
key_index ==
    [ev \in KeyEvents, overflow_checks \in BOOLEAN |->
        IF ~IsCharKey(ev) THEN [tag |-> "Retry", v |-> U32(0)]
        ELSE LET dg == to_digit(ev)
             IN  IF ~dg.some THEN [tag |-> "Retry", v |-> U32(0)]
                 ELSE LET s == u32_sub_one(U32(dg.d), overflow_checks)
                      IN  IF s.panic THEN [tag |-> "Panic", v |-> U32(0)]
                          ELSE [tag |-> "Idx", v |-> s.v]]

\* get_human_move with the range test only: an occupied cell is accepted.
get_human_move_no_free_test(b, ev, overflow_checks) ==
    LET k == key_index[ev, overflow_checks]
    IN  IF k.tag # "Idx" THEN [tag |-> k.tag, idx |-> 0]
        ELSE IF k.v.hi = 0 /\ k.v.lo < 9
             THEN [tag |-> "Ok", idx |-> k.v.lo]
             ELSE [tag |-> "Retry", idx |-> 0]

\* One iteration of the loop of get_human_move on the event ev:
\* Ok(idx) returns, Retry prints the message and reads again, Panic aborts.
get_human_move(b, ev, overflow_checks) ==
    LET k == key_index[ev, overflow_checks]
    IN  IF k.tag # "Idx" THEN [tag |-> k.tag, idx |-> 0]
        ELSE IF k.v.hi = 0 /\ k.v.lo < 9 /\ IsFree(b, k.v.lo)
             THEN [tag |-> "Ok", idx |-> k.v.lo]
             ELSE [tag |-> "Retry", idx |-> 0]

(***************************************************************************)
(* AI: each strategy as the set of indices it can return; the empty set   *)
(* is the failed unwrap of get_ai_move_random.                            *)
(***************************************************************************)
\* The random choice replaced by the first empty cell.
get_ai_move_random_first(b) ==
    {i \in Cells : IsFree(b, i) /\ \A j \in 0..(i - 1) : ~IsFree(b, j)}

get_ai_move_random(b) == {i \in Cells : IsFree(b, i)}

\* The mark loop looking at PLAYER_O only.
blocking_marks_only_o == <<PLAYER_O>>

\* The mark loop with the two marks in the other order.
blocking_marks_x_first == <<PLAYER_X, PLAYER_O>>

\* The order of `for &mark in &[PLAYER_O, PLAYER_X]`.
blocking_marks == <<PLAYER_O, PLAYER_X>>

count_mark(b, line, mark) == Cardinality({j \in 1..3 : b[line[j]] = mark})

empties(b, line) == SelectSeq(line, LAMBDA i : IsFree(b, i))

\* The line test with `count_mark == 1`.
LineHit_one_mark(b, line, mark) == count_mark(b, line, mark) = 1 /\ empties(b, line) # <<>>

LineHit(b, line, mark) == count_mark(b, line, mark) = 2 /\ empties(b, line) # <<>>

\* Position <<m, k>> of the first (mark, line) pair the nested loops accept.
BlockingHits(b) ==
    {p \in (1..Len(blocking_marks)) \X (1..Len(wins)) :
        LineHit(b, wins[p[2]], blocking_marks[p[1]])}

Before(p, q) == p[1] < q[1] \/ (p[1] = q[1] /\ p[2] <= q[2])

get_ai_move_blocking(b) ==
    LET hits == BlockingHits(b)
    IN  IF hits = {} THEN get_ai_move_random(b)
        ELSE LET p == CHOOSE h \in hits : \A g \in hits : Before(h, g)
             IN  {empties(b, wins[p[2]])[1]}

get_ai_move(b, difficulty) ==
    IF difficulty = "Easy" THEN get_ai_move_random(b) ELSE get_ai_move_blocking(b)

(***************************************************************************)
(* main                                                                   *)
(***************************************************************************)
Init ==
    /\ board = EMPTY_CELLS
    /\ current_player = PLAYER_X
    /\ game_mode = NoMode
    /\ score_player_x = 0
    /\ score_player_o = 0
    /\ score_draws = 0
    /\ pc = "ask_game_mode"
    /\ reprompted = FALSE
    /\ panic = "none"
    /\ mover = "none"
    /\ matches_started = 1
    /\ verdict = Ongoing
    /\ fn_board = EMPTY_CELLS
    /\ fn_own = PLAYER_O
    /\ fn_strategy = "none"
    /\ fn_result = [tag |-> "None", idx |-> 0]

\* ask_game_mode returns the mode of the match just started.
AskGameMode ==
    /\ pc = "ask_game_mode"
    /\ \E m \in GameMode : game_mode' = m
    /\ pc' = "turn"
    /\ UNCHANGED <<board, current_player, score_player_x, score_player_o,
                   score_draws, reprompted, panic, mover, matches_started, verdict>>
    /\ UNCHANGED fnVars

\* The winner's counter with both branches adding to score_player_x.
ScoreWin_always_x(winner) ==
    /\ score_player_x' = score_player_x + 1
    /\ UNCHANGED score_player_o

\* The winner's counter with the two branches exchanged.
ScoreWin_swapped(winner) ==
    IF winner = PLAYER_X
    THEN /\ score_player_o' = score_player_o + 1
         /\ UNCHANGED score_player_x
    ELSE /\ score_player_x' = score_player_x + 1
         /\ UNCHANGED score_player_o

\* `if winner == PLAYER_X { score_player_x += 1 } else { score_player_o += 1 }`
ScoreWin(winner) ==
    IF winner = PLAYER_X
    THEN /\ score_player_x' = score_player_x + 1
         /\ UNCHANGED score_player_o
    ELSE /\ score_player_o' = score_player_o + 1
         /\ UNCHANGED score_player_x

\* board[pos] = current_player and the rest of the body of the game loop.
Place(pos, who) ==
    LET nb == [board EXCEPT ![pos] = current_player]
        w  == check_winner(nb)
    IN  /\ board' = nb
        /\ mover' = who
        /\ reprompted' = FALSE
        /\ UNCHANGED panic
        /\ IF w.some
           THEN /\ ScoreWin(w.winner)
                /\ verdict' = [kind |-> "Win", winner |-> w.winner, line |-> w.line]
                /\ pc' = "ask_replay"
                /\ UNCHANGED <<score_draws, current_player>>
           ELSE IF is_draw(nb)
           THEN /\ score_draws' = score_draws + 1
                /\ verdict' = [kind |-> "Draw", winner |-> "", line |-> <<>>]
                /\ pc' = "ask_replay"
                /\ UNCHANGED <<score_player_x, score_player_o, current_player>>
           ELSE /\ current_player' = switch_player(current_player)
                /\ pc' = "turn"
                /\ UNCHANGED <<score_player_x, score_player_o, score_draws, verdict>>
        /\ UNCHANGED <<game_mode, matches_started>>
        /\ UNCHANGED fnVars

HumanTurn == pc = "turn" /\ is_human_turn(game_mode, current_player)

\* The results get_human_move can return on the board b: every key event,
\* in a build with and in a build without overflow checks.
HumanOutcomes(b) ==
    {get_human_move(b, ev, oc) : ev \in KeyEvents, oc \in BOOLEAN}

\* A key naming a free cell: get_human_move returns and the mark is placed.
HumanPlace ==
    /\ HumanTurn
    /\ \E r \in HumanOutcomes(board) : r.tag = "Ok" /\ Place(r.idx, "human")

\* Any other event: the message is printed and the loop reads again
\* (reprompted: the message of this call of get_human_move is on the screen).
HumanRetry ==
    /\ HumanTurn
    /\ "Retry" \in {r.tag : r \in HumanOutcomes(board)}
    /\ reprompted' = TRUE
    /\ UNCHANGED <<board, current_player, game_mode, score_player_x,
                   score_player_o, score_draws, pc, panic, mover, matches_started, verdict>>
    /\ UNCHANGED fnVars

\* The subtraction overflows in a build with overflow checks.
HumanPanic ==
    /\ HumanTurn
    /\ "Panic" \in {r.tag : r \in HumanOutcomes(board)}
    /\ pc' = "panicked"
    /\ panic' = "attempt to subtract with overflow"
    /\ UNCHANGED <<board, current_player, game_mode, score_player_x,
                   score_player_o, score_draws, reprompted, mover, matches_started, verdict>>
    /\ UNCHANGED fnVars

\* The else branch of `let pos = ...`: the strategy of the difficulty; a
\* Friend match there is unreachable!(), an empty choice a failed unwrap.
ComputerTurn ==
    /\ pc = "turn"
    /\ ~is_human_turn(game_mode, current_player)
    /\ IF game_mode.kind # "AI" \/ get_ai_move(board, game_mode.difficulty) = {}
       THEN /\ pc' = "panicked"
            /\ panic' = IF game_mode.kind # "AI" THEN "unreachable" ELSE "unwrap on None"
            /\ UNCHANGED <<board, current_player, game_mode, score_player_x,
                           score_player_o, score_draws, reprompted, mover, matches_started, verdict>>
            /\ UNCHANGED fnVars
       ELSE \E pos \in get_ai_move(board, game_mode.difficulty) :
              Place(pos, IF game_mode.difficulty = "Easy" THEN "random" ELSE "blocking")

\* The replay with current_player declared outside the outer loop.
ReplayYes_keep_player ==
    /\ pc = "ask_replay"
    /\ matches_started < MaxMatches
    /\ matches_started' = matches_started + 1
    /\ board' = EMPTY_CELLS
    /\ game_mode' = NoMode
    /\ mover' = "none"
    /\ verdict' = Ongoing
    /\ pc' = "ask_game_mode"
    /\ UNCHANGED <<current_player, reprompted, panic>>
    /\ UNCHANGED <<score_player_x, score_player_o, score_draws>>
    /\ UNCHANGED fnVars

\* ask_replay answers yes: the outer loop starts a new match.
ReplayYes ==
    /\ pc = "ask_replay"
    /\ matches_started < MaxMatches
    /\ matches_started' = matches_started + 1
    /\ board' = EMPTY_CELLS
    /\ current_player' = PLAYER_X
    /\ game_mode' = NoMode
    /\ mover' = "none"
    /\ verdict' = Ongoing
    /\ UNCHANGED <<reprompted, panic>>
    /\ pc' = "ask_game_mode"
    /\ UNCHANGED <<score_player_x, score_player_o, score_draws>>
    /\ UNCHANGED fnVars

\* ask_replay answers no: the session ends.
ReplayNo ==
    /\ pc = "ask_replay"
    /\ pc' = "exited"
    /\ UNCHANGED <<board, current_player, game_mode, score_player_x,
                   score_player_o, score_draws, reprompted, panic, mover, matches_started, verdict>>
    /\ UNCHANGED fnVars

Next ==
    \/ AskGameMode
    \/ HumanPlace
    \/ HumanRetry
    \/ HumanPanic
    \/ ComputerTurn
    \/ ReplayYes
    \/ ReplayNo

Spec == Init /\ [][Next]_vars

\* The computer moves as soon as it is its turn (a synchronous call), and a
\* human turn that stays open eventually receives a key naming an empty cell.
SpecFair == Spec /\ WF_vars(ComputerTurn) /\ WF_vars(HumanPlace)

(***************************************************************************)
(* The strategies as functions of the board: every board over X, O and    *)
(* the free cell is an input, together with the mark the caller computes  *)
(* as _computer_mark.                                                     *)
(***************************************************************************)
AllBoards ==
    {[i \in Cells |-> IF m[i] = "_" THEN EMPTY_CELLS[i] ELSE m[i]] :
        m \in [Cells -> {PLAYER_X, PLAYER_O, "_"}]}

InitFn ==
    /\ board = EMPTY_CELLS
    /\ current_player = PLAYER_X
    /\ game_mode = NoMode
    /\ score_player_x = 0
    /\ score_player_o = 0
    /\ score_draws = 0
    /\ pc = "ask_game_mode"
    /\ reprompted = FALSE
    /\ panic = "none"
    /\ mover = "none"
    /\ matches_started = 1
    /\ verdict = Ongoing
    /\ fn_board \in AllBoards
    /\ fn_own \in {PLAYER_X, PLAYER_O}
    /\ fn_strategy = "none"
    /\ fn_result = [tag |-> "None", idx |-> 0]

\* One call of a strategy: an index it can return, or the failed unwrap.
Choose(strategy, results) ==
    /\ fn_strategy = "none"
    /\ fn_strategy' = strategy
    /\ IF results = {}
       THEN fn_result' = [tag |-> "Panic", idx |-> 0]
       ELSE \E i \in results : fn_result' = [tag |-> "Ok", idx |-> i]
    /\ UNCHANGED <<fn_board, fn_own>>
    /\ UNCHANGED gameVars

ChooseRandom == Choose("random", get_ai_move_random(fn_board))

ChooseBlocking == Choose("blocking", get_ai_move_blocking(fn_board))

NextFn == ChooseRandom \/ ChooseBlocking

SpecFn == InitFn /\ [][NextFn]_vars

(***************************************************************************)
(* Vocabulary of the properties, stated on the board alone.               *)
(***************************************************************************)
Marks == {PLAYER_X, PLAYER_O}

Other(mark) == IF mark = PLAYER_X THEN PLAYER_O ELSE PLAYER_X

NumMarks(b) == Cardinality({i \in Cells : b[i] \in Marks})

Full(b) == NumMarks(b) = 9

\* Rows, columns, diagonals, in the canonical order.
CanonicalLines ==
    [k \in 1..8 |->
        IF k <= 3 THEN {3 * (k - 1), 3 * (k - 1) + 1, 3 * (k - 1) + 2}
        ELSE IF k <= 6 THEN {k - 4, k - 1, k + 2}
        ELSE IF k = 7 THEN {0, 4, 8} ELSE {2, 4, 6}]

Uniform(b, mark) == \E k \in 1..8 : \A i \in CanonicalLines[k] : b[i] = mark

AnyUniform(b) == \E mark \in Marks : Uniform(b, mark)

\* Line k holds exactly two cells of mark and its third cell is empty.
Threat(b, k, mark) ==
    \E e \in CanonicalLines[k] :
        /\ b[e] \notin Marks
        /\ \A i \in CanonicalLines[k] \ {e} : b[i] = mark

HasThreat(b, mark) == \E k \in 1..8 : Threat(b, k, mark)

FirstThreat(b, mark) ==
    CHOOSE k \in 1..8 : Threat(b, k, mark) /\ \A j \in 1..(k - 1) : ~Threat(b, j, mark)

\* The empty cell of the first line on which mark has a threat.
ThreatCell(b, mark) ==
    CHOOSE e \in CanonicalLines[FirstThreat(b, mark)] : b[e] \notin Marks

\* The step places one mark on the board.
Placement == pc = "turn" /\ board' # board

PlacedCell == CHOOSE i \in Cells : board'[i] # board[i]

\* The mark the computer holds: O when the human goes first, X otherwise.
ComputerMark == IF game_mode.player_first THEN PLAYER_O ELSE PLAYER_X

HumanMark == Other(ComputerMark)

(***************************************************************************)
(* C1: whenever the Hard strategy moves on a board where the computer's   *)
(* own mark has two cells of a line and the third is empty, it plays the  *)
(* empty cell of the first such line, whatever threats the other mark has.*)
(***************************************************************************)
C1_OwnWinFirst ==
    [][(Placement /\ mover' = "blocking" /\ HasThreat(board, ComputerMark))
         => PlacedCell = ThreatCell(board, ComputerMark)]_vars

(***************************************************************************)
(* C2: on a human turn, an event that places nothing leaves the board,    *)
(* the active mark and the score as they are and the controller waiting   *)
(* for the next key.                                                      *)
(***************************************************************************)
C2_InvalidKeyKeepsWaiting ==
    [][(HumanTurn /\ board' = board)
         => /\ pc' = "turn"
            /\ current_player' = current_player
            /\ <<score_player_x, score_player_o, score_draws>>'
                 = <<score_player_x, score_player_o, score_draws>>]_vars

(***************************************************************************)
(* C3: no digit pressed on a human turn makes the index computation       *)
(* overflow and abort the program.                                        *)
(***************************************************************************)
C3_DigitNeverFatal == panic # "attempt to subtract with overflow"

(***************************************************************************)
(* C4: during a match a marked cell keeps its mark, every turn writes     *)
(* exactly one cell, that cell was empty and receives the active mark;    *)
(* the board is cleared only between matches.                             *)
(***************************************************************************)
C4_AppendOnly ==
    [][/\ pc = "turn"
          => /\ \A i \in Cells : board[i] \in Marks => board'[i] = board[i]
             /\ (pc' = "ask_replay" \/ current_player' # current_player \/ board' # board)
                  => \E i \in Cells :
                       /\ board[i] \notin Marks
                       /\ board' = [board EXCEPT ![i] = current_player]
       /\ (pc # "turn" /\ board' # board)
          => (pc = "ask_replay" /\ pc' = "ask_game_mode")]_vars

W4_EveryMoverPlaced ==
    /\ matches_started = 2
    /\ mover = "blocking"
    /\ NumMarks(board) >= 5
    /\ score_player_x + score_player_o + score_draws = 1

(***************************************************************************)
(* C5: a match starts with X active, and the k-th mark placed in a match  *)
(* is X for odd k and O for even k, in every game mode.                   *)
(***************************************************************************)
C5_StrictAlternation ==
    [][/\ (pc' = "turn" /\ NumMarks(board') = 0) => current_player' = PLAYER_X
       /\ Placement
          => /\ NumMarks(board') = NumMarks(board) + 1
             /\ board'[PlacedCell] = (IF NumMarks(board') % 2 = 1
                                      THEN PLAYER_X ELSE PLAYER_O)]_vars

W5_NinePlacementsVsComputer ==
    /\ Full(board)
    /\ game_mode = AI("Hard", FALSE)
    /\ matches_started = 2

(***************************************************************************)
(* C6: the draw counter grows only on a full board without a uniform      *)
(* line; a ninth placement that completes a line is counted as a win.     *)
(***************************************************************************)
C6_DrawOnlyFullNoLine ==
    [][/\ score_draws' # score_draws
          => (Full(board') /\ ~AnyUniform(board'))
       /\ (Placement /\ Full(board') /\ AnyUniform(board'))
          => /\ score_draws' = score_draws
             /\ score_player_x' + score_player_o' = score_player_x + score_player_o + 1
             /\ pc' = "ask_replay"]_vars

W6_DrawThenNinthMoveWin ==
    /\ score_draws = 1
    /\ score_player_x = 1
    /\ Full(board)
    /\ AnyUniform(board)
    /\ pc = "ask_replay"

(***************************************************************************)
(* C7: a completed match adds exactly 1 to the counter of its verdict and *)
(* nothing to the others, no other step changes a counter, and the three  *)
(* counters add up to the number of completed matches.                    *)
(***************************************************************************)
CompletedMatches ==
    IF pc \in {"ask_replay", "exited"} THEN matches_started ELSE matches_started - 1

C7_ScoreAccounting ==
    /\ [](score_player_x + score_player_o + score_draws = CompletedMatches)
    /\ [][LET dx == score_player_x' - score_player_x
              do == score_player_o' - score_player_o
              dd == score_draws' - score_draws
          IN  IF pc = "turn" /\ pc' = "ask_replay"
              THEN IF Uniform(board', PLAYER_X) THEN <<dx, do, dd>> = <<1, 0, 0>>
                   ELSE IF Uniform(board', PLAYER_O) THEN <<dx, do, dd>> = <<0, 1, 0>>
                   ELSE <<dx, do, dd>> = <<0, 0, 1>>
              ELSE <<dx, do, dd>> = <<0, 0, 0>>]_vars

W7_TwoMatchesCounted ==
    /\ matches_started = 2
    /\ pc = "ask_replay"
    /\ score_player_o = 1
    /\ score_draws = 1

(***************************************************************************)
(* C8: when the computer's mark has no two-in-line with an empty third    *)
(* cell and the opposing mark has one, the Hard strategy returns the      *)
(* empty cell of the first such opposing line.                            *)
(***************************************************************************)
C8_BlockWhenNoOwnWin ==
    (/\ fn_strategy = "blocking"
     /\ NumMarks(fn_board) < 9
     /\ ~HasThreat(fn_board, fn_own)
     /\ HasThreat(fn_board, Other(fn_own)))
    => fn_result = [tag |-> "Ok", idx |-> ThreatCell(fn_board, Other(fn_own))]

W8_BlockedAsX ==
    /\ fn_strategy = "blocking"
    /\ fn_own = PLAYER_X
    /\ ~HasThreat(fn_board, PLAYER_X)
    /\ Threat(fn_board, 2, PLAYER_O)
    /\ Threat(fn_board, 7, PLAYER_O)
    /\ fn_result = [tag |-> "Ok", idx |-> 5]

(***************************************************************************)
(* C9: on the board [X,X,_,O,O,_,_,_,_] with the computer holding O the   *)
(* Hard strategy returns index 5, not index 2.                            *)
(***************************************************************************)
Board9 ==
    [i \in Cells |-> IF i \in {0, 1} THEN PLAYER_X
                     ELSE IF i \in {3, 4} THEN PLAYER_O ELSE EMPTY_CELLS[i]]

C9_TakesOwnWinAtFive ==
    (fn_strategy = "blocking" /\ fn_board = Board9 /\ fn_own = PLAYER_O)
    => fn_result = [tag |-> "Ok", idx |-> 5]

W9_ScenarioPlayed ==
    /\ fn_strategy = "blocking"
    /\ fn_board = Board9
    /\ fn_own = PLAYER_O
    /\ fn_result.tag = "Ok"

(***************************************************************************)
(* C10: in a Friend match every mark is placed by the human; against the  *)
(* computer the human places exactly the marks of X when the human goes   *)
(* first and of O otherwise, and every other mark is placed by the        *)
(* strategy of the configured difficulty.                                 *)
(***************************************************************************)
C10_MoverResolution ==
    [][Placement
         => IF game_mode.kind = "Friend" THEN mover' = "human"
            ELSE /\ game_mode.kind = "AI"
                 /\ board'[PlacedCell] = HumanMark <=> mover' = "human"
                 /\ board'[PlacedCell] = ComputerMark
                      <=> mover' = (IF game_mode.difficulty = "Easy"
                                    THEN "random" ELSE "blocking")]_vars

W10_ComputerFirstBothPlaced ==
    /\ game_mode = AI("Easy", FALSE)
    /\ mover = "human"
    /\ NumMarks(board) = 4
    /\ pc = "turn"

(***************************************************************************)
(* C11: a placement that produces a win or a draw ends the match without  *)
(* switching the active mark; on a finished board nothing is placed and   *)
(* the mark is not switched, and the only step that changes the board is  *)
(* the replay, which starts a new match.                                  *)
(***************************************************************************)
Finished == pc \in {"ask_replay", "exited"}

C11_FinishedIsTerminal ==
    [][/\ (Placement /\ (AnyUniform(board') \/ Full(board')))
          => (pc' = "ask_replay" /\ current_player' = current_player)
       /\ (AnyUniform(board) \/ Full(board))
          => \/ (board' = board /\ current_player' = current_player /\ pc' # "turn")
             \/ (pc = "ask_replay" /\ pc' = "ask_game_mode" /\ NumMarks(board') = 0)]_vars

W11_WonBoardLeft ==
    /\ pc = "exited"
    /\ Uniform(board, PLAYER_O)
    /\ NumMarks(board) = 6
    /\ current_player = PLAYER_O

(***************************************************************************)
(* C12: after a finished match and a replay the new match starts with all *)
(* nine cells empty and X active, whatever the previous board, verdict    *)
(* and mode were.                                                         *)
(***************************************************************************)
C12_ReplayReset ==
    [][(pc = "ask_replay" /\ pc' # "exited")
         => /\ \A i \in Cells : board'[i] = EMPTY_CELLS[i]
            /\ current_player' = PLAYER_X
            /\ verdict' = Ongoing]_vars

W12_ReplayAfterOWin ==
    /\ matches_started = 2
    /\ pc = "ask_game_mode"
    /\ score_player_o = 1
    /\ NumMarks(board) = 0

(***************************************************************************)
(* C13: whenever it is the computer's turn the board has an empty cell,   *)
(* and no unwrap of the random choice has failed.                         *)
(***************************************************************************)
C13_StrategyHasEmptyCell ==
    /\ (pc = "turn" /\ game_mode.kind = "AI" /\ current_player = ComputerMark)
         => NumMarks(board) < 9
    /\ panic # "unwrap on None"

W13_ComputerFilledLastCell ==
    /\ Full(board)
    /\ mover = "random"
    /\ verdict.kind = "Draw"

(***************************************************************************)
(* Scripted matches: the board after the first k moves of a move list,    *)
(* X placing the odd moves and O the even ones.                           *)
(***************************************************************************)
BoardAfter(moves, k) ==
    [i \in Cells |->
        IF \E j \in 1..k : moves[j] = i
        THEN (IF (CHOOSE j \in 1..k : moves[j] = i) % 2 = 1 THEN PLAYER_X ELSE PLAYER_O)
        ELSE EMPTY_CELLS[i]]

WinMoves == <<0, 3, 1, 4, 2>>

DrawMoves == <<0, 1, 2, 4, 3, 5, 7, 6, 8>>

(***************************************************************************)
(* C14: in a Friend match the moves X0, O3, X1, O4, X2 leave the match    *)
(* ongoing after each of the first four placements and end it after the   *)
(* fifth with winner X, line [0,1,2], and one more X win counted.         *)
(***************************************************************************)
C14_EndToEndWin ==
    /\ [](game_mode = Friend
            => /\ \A k \in 1..4 : board = BoardAfter(WinMoves, k)
                                    => (verdict = Ongoing /\ ~Finished)
               /\ board = BoardAfter(WinMoves, 5)
                    => /\ verdict = [kind |-> "Win", winner |-> PLAYER_X, line |-> <<0, 1, 2>>]
                       /\ Finished)
    /\ [][(game_mode = Friend /\ board = BoardAfter(WinMoves, 4)
                              /\ board' = BoardAfter(WinMoves, 5))
            => /\ score_player_x' = score_player_x + 1
               /\ score_player_o' = score_player_o
               /\ score_draws' = score_draws]_vars

W14_FifthMoveWins ==
    /\ game_mode = Friend
    /\ board = BoardAfter(WinMoves, 5)
    /\ score_player_x = 1
    /\ matches_started = 1

(***************************************************************************)
(* C15: in a Friend match the moves X0, O1, X2, O4, X3, O5, X7, O6, X8    *)
(* report no result after each of the first eight placements and end the  *)
(* match after the ninth as a draw, adding to the draw counter only.      *)
(***************************************************************************)
C15_EndToEndDraw ==
    /\ [](game_mode = Friend
            => /\ \A k \in 1..8 : board = BoardAfter(DrawMoves, k)
                                    => (verdict = Ongoing /\ ~Finished)
               /\ board = BoardAfter(DrawMoves, 9)
                    => (verdict.kind = "Draw" /\ Finished))
    /\ [][(game_mode = Friend /\ board = BoardAfter(DrawMoves, 8)
                              /\ board' = BoardAfter(DrawMoves, 9))
            => /\ score_draws' = score_draws + 1
               /\ score_player_x' = score_player_x
               /\ score_player_o' = score_player_o]_vars

W15_NinthMoveDraws ==
    /\ game_mode = Friend
    /\ board = BoardAfter(DrawMoves, 9)
    /\ score_draws = 1
    /\ matches_started = 1

(***************************************************************************)
(* C16: the line reported with a win is the first line, in the order      *)
(* rows, columns, diagonals, whose three cells hold the same mark, also   *)
(* when the last placement completed two lines.                           *)
(***************************************************************************)
UniformLine(b, k) == \E mark \in Marks : \A i \in CanonicalLines[k] : b[i] = mark

C16_FirstUniformLineReported ==
    verdict.kind = "Win"
    => \E k \in 1..8 :
         /\ UniformLine(board, k)
         /\ \A j \in 1..(k - 1) : ~UniformLine(board, j)
         /\ {verdict.line[n] : n \in 1..3} = CanonicalLines[k]
         /\ verdict.line[1] < verdict.line[2]
         /\ verdict.line[2] < verdict.line[3]

W16_TwoLinesCompleted ==
    /\ verdict.kind = "Win"
    /\ UniformLine(board, 3)
    /\ UniformLine(board, 6)
    /\ verdict.line = <<6, 7, 8>>

(***************************************************************************)
(* C17: on a board with an empty cell the indices the Random strategy can *)
(* return are exactly the empty cells: each empty cell is a possible      *)
(* result of the call, and every result is an empty cell.                 *)
(***************************************************************************)
Returned(i) == [tag |-> "Ok", idx |-> i]

C17_RandomReturnsExactlyEmpties ==
    /\ (fn_strategy = "none" /\ NumMarks(fn_board) < 9)
         => \A i \in Cells :
              (fn_board[i] \notin Marks) <=> ENABLED (ChooseRandom /\ fn_result' = Returned(i))
    /\ (fn_strategy = "random" /\ NumMarks(fn_board) < 9)
         => \E i \in Cells : fn_result = Returned(i) /\ fn_board[i] \notin Marks

W17_RandomTookLastOfThree ==
    /\ fn_strategy = "random"
    /\ NumMarks(fn_board) = 6
    /\ fn_board[0] \notin Marks
    /\ fn_board[4] \notin Marks
    /\ fn_result = Returned(8)

(***************************************************************************)
(* C18: on a board with an empty cell where neither mark holds two cells  *)
(* of a line whose third cell is empty, the indices the Hard strategy can *)
(* return are exactly the empty cells.                                    *)
(***************************************************************************)
NoThreat(b) == ~HasThreat(b, PLAYER_X) /\ ~HasThreat(b, PLAYER_O)

C18_HardFallsBackToRandom ==
    /\ (fn_strategy = "none" /\ NumMarks(fn_board) < 9 /\ NoThreat(fn_board))
         => \A i \in Cells :
              (fn_board[i] \notin Marks) <=> ENABLED (ChooseBlocking /\ fn_result' = Returned(i))
    /\ (fn_strategy = "blocking" /\ NumMarks(fn_board) < 9 /\ NoThreat(fn_board))
         => \E i \in Cells : fn_result = Returned(i) /\ fn_board[i] \notin Marks

W18_FallbackTookLastCell ==
    /\ fn_strategy = "blocking"
    /\ NoThreat(fn_board)
    /\ NumMarks(fn_board) = 4
    /\ fn_board[0] \notin Marks
    /\ fn_result = Returned(8)

(***************************************************************************)
(* C19: at most one of X and O has a uniform line, and a match that ends  *)
(* in a win reports as winner the mark just placed and adds to that       *)
(* mark's counter, never to the other's.                                  *)
(***************************************************************************)
C19_WinnerIsLastMover ==
    /\ [](~(Uniform(board, PLAYER_X) /\ Uniform(board, PLAYER_O)))
    /\ [][(Placement /\ AnyUniform(board'))
            => LET m == board'[PlacedCell]
               IN  /\ verdict'.kind = "Win"
                   /\ verdict'.winner = m
                   /\ Uniform(board', m)
                   /\ score_draws' = score_draws
                   /\ IF m = PLAYER_X
                      THEN /\ score_player_x' = score_player_x + 1
                           /\ score_player_o' = score_player_o
                      ELSE /\ score_player_o' = score_player_o + 1
                           /\ score_player_x' = score_player_x]_vars

W19_ComputerWinsAsO ==
    /\ verdict.kind = "Win"
    /\ verdict.winner = PLAYER_O
    /\ mover = "blocking"
    /\ score_player_o = 1
    /\ score_player_x = 1

(***************************************************************************)
(* C20: a match ends after at least 5 and at most 9 placements, and every *)
(* started match eventually reaches a win or a draw, given that a human   *)
(* turn eventually receives a key naming an empty cell.                   *)
(***************************************************************************)
C20_MatchTerminates ==
    /\ [](Finished => (5 <= NumMarks(board) /\ NumMarks(board) <= 9))
    /\ (pc = "turn") ~> Finished

====
